---- MODULE Spec2Model ----
(***************************************************************************)
(* Model of the two CI validation scripts of the distributions registry:   *)
(*   .github/scripts/validate-distributions.js                             *)
(*   .github/scripts/validate-merkle.js                                    *)
(*                                                                         *)
(* JSON values are tagged records:                                         *)
(*   [t |-> "absent"]            undefined / a property that is not there  *)
(*   [t |-> "null"]              null                                      *)
(*   [t |-> "num",  n |-> 3]     a number                                  *)
(*   [t |-> "str",  s |-> "x"]   a string that is only compared or looked  *)
(*                               up (chain names, format, token type)      *)
(*   [t |-> "text", pre, ch, n]  a string whose characters are read (by a  *)
(*                               regular expression or a conversion): the  *)
(*                               prefix pre, "" or "0x", followed by n     *)
(*                               copies of the character ch                *)
(*   [t |-> "arr",  a |-> <<>>]  an array                                  *)
(*   [t |-> "obj",  ...]         an object, one record field per property  *)
(* Equality of two such records is JavaScript's strict equality (===) on   *)
(* the primitive values the model uses.                                    *)
(***************************************************************************)
EXTENDS Integers, Sequences, FiniteSets, TLC

VARIABLES
    mode,         \* which program runs: "tree", "dist" (one validator call) or a driver
    treeData,     \* validate-merkle.js: the parsed merkle-tree.json handed to validateMerkleTree
    expectedRoot, \* validate-merkle.js: the expectedRoot argument
    content,      \* validate-distributions.js: what readFileSync/JSON.parse find at filePath
    result,       \* the outcome of the last validator call
    pc,           \* position of the program
    changedFiles, \* drivers: process.env.CHANGED_FILES split at newlines
    listing,      \* drivers: the chain folders found under process.cwd()
    scanFiles,    \* drivers: the resolved file set
    fileIndex,          \* drivers: how many files of scanFiles the loop has taken
    hasErrors,    \* drivers: the hasErrors flag
    out,          \* drivers: what was printed, one report per file
    exitCode,     \* drivers: the exit status, -1 while the process runs
    sibling       \* validate-merkle.js: what is found at the sibling distribution.json

driverVars == <<changedFiles, listing, scanFiles, fileIndex, hasErrors, out, exitCode, sibling>>

vars == <<mode, treeData, expectedRoot, content, result, pc, driverVars>>

(***************************************************************************)
(* JSON values and the JavaScript operations the scripts apply to them     *)
(***************************************************************************)
Absent == [t |-> "absent"]
Null == [t |-> "null"]
Num(n) == [t |-> "num", n |-> n]
Str(s) == [t |-> "str", s |-> s]
Text(pre, ch, n) == [t |-> "text", pre |-> pre, ch |-> ch, n |-> n]
Arr(a) == [t |-> "arr", a |-> a]

Nullish(v) == v.t \in {"absent", "null"}

\* ToBoolean: undefined, null, 0 and "" are falsy; objects and arrays are truthy.
Truthy(v) ==
    /\ ~Nullish(v)
    /\ (v.t = "num" => v.n /= 0)
    /\ (v.t = "str" => v.s /= "")
    /\ (v.t = "text" => ~(v.pre = "" /\ v.n = 0))

IsArray(v) == v.t = "arr"

TypeofNumber(v) == v.t = "num"

\* obj.key for a non-nullish obj: the property, or undefined when it is not there.
Get(v, key) == IF v.t = "obj" /\ key \in DOMAIN v THEN v[key] ELSE Absent

\* v[i] (0-based) as JavaScript reads it on an array or on a number.
ElemAt(v, i) == IF IsArray(v) /\ i + 1 <= Len(v.a) THEN v.a[i + 1] ELSE Absent

Max(a, b) == IF a >= b THEN a ELSE b

Rep(ch, n) == [i \in 1..n |-> ch]

HexDigits ==
    {"0", "1", "2", "3", "4", "5", "6", "7", "8", "9",
     "a", "b", "c", "d", "e", "f", "A", "B", "C", "D", "E", "F"}

DecDigits == {"0", "1", "2", "3", "4", "5", "6", "7", "8", "9"}

AddrHexLen == 40

Bytes32HexLen == 64

\* /^0x[a-fA-F0-9]{n}$/ applied to the string v.
MatchesHex(v, n) == v.pre = "0x" /\ v.n = n /\ v.ch \in HexDigits

\* /^0x[a-fA-F0-9]{40}$/.test(address): a non-string is converted to a string
\* first; no number, null or undefined converts to a string that matches.
AddressRegexTest(v) == v.t = "text" /\ MatchesHex(v, AddrHexLen)

\* typeof amount === 'string' && /^\d+$/.test(amount)
AmountOk(v) == v.t = "text" /\ v.pre = "" /\ v.n >= 1 /\ v.ch \in DecDigits

(***************************************************************************)
(* validate-merkle.js: validateMerkleTree                                  *)
(***************************************************************************)
Returned(errors) == [raised |-> FALSE, errors |-> errors]

Raised(message) == [raised |-> TRUE, message |-> message]

\* The errors the loop body pushes for the entry at position i (0-based).
EntryErrors(entry, i) ==
    LET value == Get(entry, "value") IN
    IF ~Truthy(value) \/ ~IsArray(value)
    THEN << [kind |-> "EntryMissingValue", i |-> i] >>
    ELSE (IF Len(value.a) /= 3
          THEN << [kind |-> "EntryArity", i |-> i, got |-> Len(value.a)] >>
          ELSE << >>)
      \o (IF ~TypeofNumber(ElemAt(value, 0))
          THEN << [kind |-> "EntryIndexNotNumber", i |-> i] >>
          ELSE << >>)
      \o (IF ~AddressRegexTest(ElemAt(value, 1))
          THEN << [kind |-> "EntryAddress", i |-> i, address |-> ElemAt(value, 1)] >>
          ELSE << >>)
      \o (IF ~AmountOk(ElemAt(value, 2))
          THEN << [kind |-> "EntryAmount", i |-> i, amount |-> ElemAt(value, 2)] >>
          ELSE << >>)
      \o (IF ~TypeofNumber(Get(entry, "treeIndex"))
          THEN << [kind |-> "EntryTreeIndex", i |-> i] >>
          ELSE << >>)

RECURSIVE LoopErrors(_, _)
\* The for loop over treeData.values, from position i (0-based) on.
LoopErrors(values, i) ==
    IF i >= Len(values) THEN << >>
    ELSE EntryErrors(values[i + 1], i) \o LoopErrors(values, i + 1)

\* indices.indexOf(item): the first position (1-based here) holding item.
IndexOf(indices, item) ==
    CHOOSE k \in 1..Len(indices) :
        /\ indices[k] = item
        /\ \A j \in 1..(k - 1) : indices[j] /= item

RECURSIVE FilterDuplicates(_, _)
\* indices.filter((item, index) => indices.indexOf(item) !== index), from position k on.
FilterDuplicates(indices, k) ==
    IF k > Len(indices) THEN << >>
    ELSE (IF IndexOf(indices, indices[k]) /= k THEN << indices[k] >> ELSE << >>)
         \o FilterDuplicates(indices, k + 1)

RECURSIVE SetOrder(_, _)
\* [...new Set(duplicates)]: each value once, in order of first insertion.
SetOrder(s, k) ==
    IF k > Len(s) THEN << >>
    ELSE (IF \E j \in 1..(k - 1) : s[j] = s[k] THEN << >> ELSE << s[k] >>)
         \o SetOrder(s, k + 1)

\* Duplicates without the `new Set`: every later occurrence is listed.
DuplicatesNotDeduplicated(indices) == FilterDuplicates(indices, 1)

Duplicates(indices) == SetOrder(FilterDuplicates(indices, 1), 1)

RECURSIVE CeilLog2From(_, _, _)
CeilLog2From(n, k, pow) == IF pow >= n THEN k ELSE CeilLog2From(n, k + 1, 2 * pow)

\* Math.ceil(Math.log2(n)) for n >= 1.
CeilLog2(n) == CeilLog2From(n, 0, 1)

\* Math.max(1, Math.ceil(Math.log2(n)) * 2); Math.log2(0) is -Infinity, and
\* Math.max(1, -Infinity) is 1.
MinTreeLength(n) == IF n = 0 THEN 1 ELSE Max(1, CeilLog2(n) * 2)

validateMerkleTree(data, expected) ==
    IF Nullish(data) THEN Raised("TypeError")
    ELSE
    LET values == Get(data, "values")
        tree == Get(data, "tree")
        leafEncoding == Get(data, "leafEncoding")
    IN
    IF ~Truthy(values) \/ ~IsArray(values) THEN Returned(<< [kind |-> "MissingValues"] >>)
    ELSE IF ~Truthy(tree) \/ ~IsArray(tree) THEN Returned(<< [kind |-> "MissingTree"] >>)
    ELSE
    LET encodingErrors ==
            IF ~Truthy(leafEncoding) \/ ~IsArray(leafEncoding)
            THEN << [kind |-> "MissingLeafEncoding"] >>
            ELSE << >>
        actualRoot ==
            IF Get(data, "format") = Str("standard-v1") /\ Truthy(ElemAt(tree, 0))
            THEN ElemAt(tree, 0)
            ELSE Get(data, "root")
        rootErrors ==
            IF Truthy(expected) /\ actualRoot /= expected
            THEN << [kind |-> "RootMismatch", actual |-> actualRoot, expected |-> expected] >>
            ELSE << >>
        n == Len(values.a)
        indices == [k \in 1..n |-> ElemAt(Get(values.a[k], "value"), 0)]
        duplicates == Duplicates(indices)
        duplicateErrors ==
            IF duplicates /= << >>
            THEN << [kind |-> "DuplicateIndices", list |-> duplicates] >>
            ELSE << >>
        minTreeLength == MinTreeLength(n)
        lengthErrors ==
            IF Len(tree.a) < minTreeLength
            THEN << [kind |-> "TreeTooShort", length |-> Len(tree.a), min |-> minTreeLength] >>
            ELSE << >>
    IN
    \* line 51: entry.value on a null entry raises
    IF \E k \in 1..n : Nullish(values.a[k]) THEN Raised("TypeError")
    \* line 84: v.value[0] raises when v.value is undefined or null
    ELSE IF \E k \in 1..n : Nullish(Get(values.a[k], "value")) THEN Raised("TypeError")
    ELSE Returned(encodingErrors \o rootErrors \o LoopErrors(values.a, 0)
                  \o duplicateErrors \o lengthErrors)

(***************************************************************************)
(* validate-distributions.js: validateDistributionFile                     *)
(***************************************************************************)
SUPPORTED_CHAINS ==
    [ethereum |-> 1, classic |-> 61, base |-> 8453, optimism |-> 10,
     arbitrum |-> 42161, polygon |-> 137, bsc |-> 56, avalanche |-> 43114]

REQUIRED_FIELDS ==
    << "chainId", "chainName", "name", "description", "token", "distributor",
       "registry", "merkleRoot", "createdAt", "totalRecipients", "totalAmount",
       "createdBy" >>

TOKEN_REQUIRED_FIELDS == << "address", "name", "symbol", "decimals", "type" >>

TOKEN_TYPES == {"NATIVE", "ERC20", "ERC223"}

\* Property names every object inherits from Object.prototype (those the model's
\* inputs use): SUPPORTED_CHAINS[name] finds a function there.
PrototypeKeys == {"constructor", "toString"}

\* SUPPORTED_CHAINS[data.chainName]
ChainLookup(name) ==
    IF name.t = "str" /\ name.s \in DOMAIN SUPPORTED_CHAINS THEN Num(SUPPORTED_CHAINS[name.s])
    ELSE IF name.t = "str" /\ name.s \in PrototypeKeys THEN [t |-> "function"]
    ELSE Absent

\* ethers.isAddress inside try/catch: true for 40 hex digits with or without
\* the 0x prefix. The inputs of the model carry no upper-case hex letter, so
\* the checksum of a mixed-case address never comes into play.
isValidAddress(v) ==
    /\ v.t = "text"
    /\ \/ MatchesHex(v, AddrHexLen)
       \/ v.pre = "" /\ v.n = AddrHexLen /\ v.ch \in HexDigits

\* typeof value === 'string' && /^0x[a-fA-F0-9]{64}$/.test(value)
isValidBytes32(v) == v.t = "text" /\ MatchesHex(v, Bytes32HexLen)

\* isNaN(x): ToNumber of a number is itself, of "" zero, of a string of decimal
\* digits or of 0x and hex digits that number, of any other text or of an object
\* NaN.
JsIsNaN(v) ==
    \/ /\ v.t = "text"
       /\ ~(v.pre = "" /\ (v.n = 0 \/ v.ch \in DecDigits))
       /\ ~(v.pre = "0x" /\ v.n >= 1 /\ v.ch \in HexDigits)
    \/ v.t \in {"obj", "absent", "function"}

\* x < 0
JsNegative(v) == v.t = "num" /\ v.n < 0

\* `key in obj`: raises a TypeError unless obj is an object (or array).
InRaises(v) == v.t \notin {"obj", "arr"}

RECURSIVE MissingFields(_, _, _, _)
\* for (const field of fields) if (!(field in obj)) errors.push(...), from position k on.
MissingFields(fields, obj, kind, k) ==
    IF k > Len(fields) THEN << >>
    ELSE (IF obj.t = "obj" /\ fields[k] \in DOMAIN obj THEN << >>
          ELSE << [kind |-> kind, field |-> fields[k]] >>)
         \o MissingFields(fields, obj, kind, k + 1)

\* The address list of lines 77-80, as (fieldName, value) pairs.
AddressFields(data) ==
    LET token == Get(data, "token") IN
    << [field |-> "distributor", value |-> Get(data, "distributor")],
       [field |-> "registry", value |-> Get(data, "registry")],
       [field |-> "createdBy", value |-> Get(data, "createdBy")] >>
    \o (IF Truthy(token) /\ Truthy(Get(token, "address"))
        THEN << [field |-> "token.address", value |-> Get(token, "address")] >>
        ELSE << >>)

RECURSIVE AddressErrors(_, _)
AddressErrors(fields, k) ==
    IF k > Len(fields) THEN << >>
    ELSE (IF Truthy(fields[k].value) /\ ~isValidAddress(fields[k].value)
          THEN << [kind |-> "InvalidAddress", field |-> fields[k].field,
                   value |-> fields[k].value] >>
          ELSE << >>)
         \o AddressErrors(fields, k + 1)

Thrown(errors, message) == [threw |-> TRUE, errors |-> errors, message |-> message]

Completed(errors) == [threw |-> FALSE, errors |-> errors, message |-> ""]

\* The body of the try block (lines 54-112): the errors pushed, and whether a
\* statement threw before the end.
DistributionTryBlock(c) ==
    IF c.k = "unreadable" THEN Thrown(<< >>, "ENOENT")
    ELSE IF c.k = "unparsable" THEN Thrown(<< >>, "SyntaxError")
    ELSE
    LET data == c.data IN
    IF InRaises(data) THEN Thrown(<< >>, "TypeError")
    ELSE
    LET chainId == Get(data, "chainId")
        chainName == Get(data, "chainName")
        token == Get(data, "token")
        merkleRoot == Get(data, "merkleRoot")
        totalRecipients == Get(data, "totalRecipients")
        expectedChainId == ChainLookup(chainName)
        required == MissingFields(REQUIRED_FIELDS, data, "MissingField", 1)
        unsupported ==
            IF Truthy(chainName) /\ ~Truthy(expectedChainId)
            THEN << [kind |-> "UnsupportedChain", chainName |-> chainName] >>
            ELSE << >>
        mismatch ==
            IF Truthy(chainId) /\ Truthy(chainName)
               /\ Truthy(expectedChainId) /\ expectedChainId /= chainId
            THEN << [kind |-> "ChainIdMismatch", chainId |-> chainId,
                     expected |-> expectedChainId] >>
            ELSE << >>
        addresses == AddressErrors(AddressFields(data), 1)
        tokenType == Get(token, "type")
        tokenErrors ==
            IF Truthy(token)
            THEN MissingFields(TOKEN_REQUIRED_FIELDS, token, "MissingTokenField", 1)
                 \o (IF Truthy(tokenType) /\ ~(tokenType.t = "str" /\ tokenType.s \in TOKEN_TYPES)
                     THEN << [kind |-> "InvalidTokenType", type |-> tokenType] >>
                     ELSE << >>)
            ELSE << >>
        rootErrors ==
            IF Truthy(merkleRoot) /\ ~isValidBytes32(merkleRoot)
            THEN << [kind |-> "InvalidMerkleRoot", value |-> merkleRoot] >>
            ELSE << >>
        recipientErrors ==
            IF Truthy(totalRecipients) /\ (JsIsNaN(totalRecipients) \/ JsNegative(totalRecipients))
            THEN << [kind |-> "InvalidTotalRecipients", value |-> totalRecipients] >>
            ELSE << >>
    IN
    \* line 94: `field in data.token` raises when token is a truthy primitive
    IF Truthy(token) /\ InRaises(token)
    THEN Thrown(required \o unsupported \o mismatch \o addresses, "TypeError")
    ELSE Completed(required \o unsupported \o mismatch \o addresses \o tokenErrors
                   \o rootErrors \o recipientErrors)

\* validateDistributionFile without its catch clause: what the try block
\* throws leaves the function.
validateDistributionFileNoCatch(c) ==
    LET block == DistributionTryBlock(c) IN
    IF block.threw THEN Raised(block.message) ELSE Returned(block.errors)

\* try { ... } catch (error) { errors.push(`Failed to parse JSON: ...`) } return errors
validateDistributionFile(c) ==
    LET block == DistributionTryBlock(c) IN
    IF block.threw
    THEN Returned(block.errors \o << [kind |-> "ParseFail", message |-> block.message] >>)
    ELSE Returned(block.errors)

(***************************************************************************)
(* Inputs: the documents the validators are run on                         *)
(***************************************************************************)
MaxRootValues == 2

MaxValues == 4

MaxLeaves == 9

MaxTreeLen == 9

MaxDefects == 2

AddrA == Text("0x", "a", AddrHexLen)

AddrShort == Text("0x", "a", AddrHexLen - 1)

AddrNoPrefix == Text("", "b", AddrHexLen)

Amount11 == Text("", "1", 2)

RootAA == Text("0x", "a", Bytes32HexLen)

RootBB == Text("0x", "b", Bytes32HexLen)

RootShort == Text("0x", "a", Bytes32HexLen - 1)

EmptyText == Text("", "", 0)

\* {"value": [index, "0xaa..", "11"], "treeIndex": index}
GoodEntry(index) ==
    [t |-> "obj", value |-> Arr(<< Num(index), AddrA, Amount11 >>), treeIndex |-> Num(index)]

\* {"treeIndex": 0}: no `value`
NoValueEntry == [t |-> "obj", treeIndex |-> Num(0)]

\* {"value": 7, "treeIndex": 0}: a `value` that is no array
NonArrayValueEntry == [t |-> "obj", value |-> Num(7), treeIndex |-> Num(0)]

\* {"value": ["1", "0xaa.." (39 digits)]}: two fields, a string index, no treeIndex
BadEntry == [t |-> "obj", value |-> Arr(<< Str("1"), AddrShort >>)]

\* {"value": [], "treeIndex": 0}
EmptyValueEntry == [t |-> "obj", value |-> Arr(<< >>), treeIndex |-> Num(0)]

\* {"leafIndex": index, "address": "0xaa..", "amount": "11"}
Leaf(index) == [t |-> "obj", leafIndex |-> Num(index), address |-> AddrA, amount |-> Amount11]

SeqsUpTo(S, n) == UNION {[1..k -> S] : k \in 0..n}

\* An object with the given properties; a property whose value is Absent is left out.
TreeObject(values, tree, leafEncoding, format, root, leaves) ==
    LET all == [values |-> values, tree |-> tree, leafEncoding |-> leafEncoding,
                format |-> format, root |-> root, leaves |-> leaves]
        present == {k \in DOMAIN all : all[k] /= Absent} \cup {"t"}
    IN [k \in present |-> IF k = "t" THEN "obj" ELSE all[k]]

\* Documents that vary `format`, `tree[0]`, `root`, `leaves` and the presence of
\* the three arrays, with up to MaxRootValues entries.
RootDocs ==
    {Null} \cup
    {TreeObject(values, tree, leafEncoding, format, root, leaves) :
        values \in {Absent} \cup
                   {Arr(s) : s \in SeqsUpTo({GoodEntry(0), GoodEntry(1), NoValueEntry},
                                            MaxRootValues)},
        tree \in {Absent, Arr(<< >>), Arr(<< RootAA >>), Arr(<< RootBB >>),
                  Arr(<< EmptyText, RootAA >>)},
        leafEncoding \in {Absent, Arr(<< Str("uint256"), Str("address"), Str("uint256") >>)},
        format \in {Absent, Str("standard-v1")},
        root \in {Absent, RootAA, RootBB},
        leaves \in {Absent, Arr(<< Leaf(0), Leaf(0) >>), Arr(<< Leaf(0), Leaf(1) >>)}}

EntryCatalog ==
    {GoodEntry(0), GoodEntry(1), NoValueEntry, NonArrayValueEntry, BadEntry,
     EmptyValueEntry, Null}

\* standard-v1 documents that vary the entries, up to MaxValues of them.
EntryDocs ==
    {TreeObject(Arr(s), tree, Arr(<< Str("uint256") >>), Str("standard-v1"), Absent, Absent) :
        s \in SeqsUpTo(EntryCatalog, MaxValues),
        tree \in {Arr(<< RootAA >>), Arr(<< RootAA, RootBB, RootBB, RootBB >>)}}

\* The entries of a document with n values: entry k carries index k, or no `value`
\* when k is in `holes`.
LeafEntries(n, holes) == [k \in 1..n |-> IF k \in holes THEN NoValueEntry ELSE GoodEntry(k)]

\* standard-v1 documents that vary the number of values and the length of `tree`.
LengthDocs ==
    {TreeObject(Arr(LeafEntries(n, holes)), Arr(Rep(RootAA, len)),
                Arr(<< Str("uint256") >>), Str("standard-v1"), Absent, Absent) :
        n \in 0..MaxLeaves, holes \in {{}, {1}}, len \in 0..MaxTreeLen}

ExpectedRoots == {Null, Absent, EmptyText, RootAA, RootBB}

\* A distribution.json that passes every check.
GoodToken ==
    [t |-> "obj", address |-> AddrA, name |-> Str("Token"), symbol |-> Str("TKN"),
     decimals |-> Num(18), type |-> Str("ERC20")]

GoodDistribution ==
    [t |-> "obj", chainId |-> Num(1), chainName |-> Str("ethereum"), name |-> Str("Airdrop"),
     description |-> Str("An airdrop"), token |-> GoodToken, distributor |-> AddrA,
     registry |-> AddrA, merkleRoot |-> RootAA, createdAt |-> Num(1700000000),
     totalRecipients |-> Num(3), totalAmount |-> Amount11, createdBy |-> AddrNoPrefix]

Without(obj, key) == [k \in DOMAIN obj \ {key} |-> obj[k]]

\* One way a document differs from GoodDistribution: a property set to another
\* value, or (value Absent) removed.
Defects ==
    [field : {"chainId"}, value : {Absent, Null, Num(0), Num(61), Str("1")}]
    \cup [field : {"chainName"},
          value : {Absent, Str(""), Str("classic"), Str("goerli"), Str("constructor")}]
    \cup [field : {"token"},
          value : {Absent, Null, Num(5), Without(GoodToken, "type"),
                   [GoodToken EXCEPT !.type = Str("ERC721")],
                   [GoodToken EXCEPT !.address = AddrShort]}]
    \cup [field : {"distributor"}, value : {Absent, AddrShort, Num(5)}]
    \cup [field : {"registry", "createdBy"}, value : {Absent, AddrShort}]
    \cup [field : {"merkleRoot"}, value : {Absent, RootShort, Num(5)}]
    \cup [field : {"totalRecipients"},
          value : {Absent, Num(0), Num(-1), Text("", "z", 2), Text("", "7", 1)}]
    \cup [field : {"name", "description", "createdAt", "totalAmount"}, value : {Absent}]

ApplyDefect(obj, d) ==
    IF d.value = Absent THEN Without(obj, d.field)
    ELSE [k \in DOMAIN obj \cup {d.field} |-> IF k = d.field THEN d.value ELSE obj[k]]

RECURSIVE ApplyDefects(_, _)
ApplyDefects(obj, ds) ==
    IF ds = {} THEN obj
    ELSE LET d == CHOOSE x \in ds : TRUE IN ApplyDefects(ApplyDefect(obj, d), ds \ {d})

RECURSIVE DefectSets(_)
\* The sets of at most k defects, no two on the same property.
DefectSets(k) ==
    IF k = 0 THEN {{}}
    ELSE LET smaller == DefectSets(k - 1) IN
         smaller \cup {ds \cup {d} : ds \in smaller,
                                     d \in Defects}

DistinctFields(ds) == \A d1, d2 \in ds : d1.field = d2.field => d1 = d2

DistributionDocs ==
    {ApplyDefects(GoodDistribution, ds) : ds \in {x \in DefectSets(MaxDefects) : DistinctFields(x)}}

\* What validateDistributionFile finds at filePath.
DistributionContents ==
    {[k |-> "unreadable"], [k |-> "unparsable"]}
    \cup {[k |-> "parsed", data |-> d] : d \in DistributionDocs \cup {Null, Num(5), Arr(<< >>)}}

(***************************************************************************)
(* One call of a validator on one input                                    *)
(***************************************************************************)
NoResult == [raised |-> FALSE, errors |-> << >>, none |-> TRUE]

NoContent == [k |-> "none"]

EmptyListing == [notDirectory |-> {}, entries |-> {}]

\* The driver is not part of a single validator call.
DriverIdle ==
    /\ changedFiles = << >>
    /\ listing = EmptyListing
    /\ scanFiles = << >>
    /\ fileIndex = 0
    /\ hasErrors = FALSE
    /\ out = << >>
    /\ exitCode = -1
    /\ sibling = NoContent

InitTree ==
    /\ mode = "tree"
    /\ \/ treeData \in RootDocs /\ expectedRoot \in ExpectedRoots
       \/ treeData \in EntryDocs /\ expectedRoot \in {Null, RootBB}
       \/ treeData \in LengthDocs /\ expectedRoot \in {Null}
    /\ content = NoContent
    /\ result = NoResult
    /\ pc = "call"
    /\ DriverIdle

CallValidateMerkleTree ==
    /\ mode = "tree"
    /\ pc = "call"
    /\ result' = validateMerkleTree(treeData, expectedRoot)
    /\ pc' = "returned"
    /\ UNCHANGED <<mode, treeData, expectedRoot, content, driverVars>>

SpecTree == InitTree /\ [][CallValidateMerkleTree]_vars

InitDist ==
    /\ mode = "dist"
    /\ content \in DistributionContents
    /\ treeData = Null
    /\ expectedRoot = Null
    /\ result = NoResult
    /\ pc = "call"
    /\ DriverIdle

CallValidateDistributionFile ==
    /\ mode = "dist"
    /\ pc = "call"
    /\ result' = validateDistributionFile(content)
    /\ pc' = "returned"
    /\ UNCHANGED <<mode, treeData, expectedRoot, content, driverVars>>

SpecDist == InitDist /\ [][CallValidateDistributionFile]_vars

(***************************************************************************)
(* The drivers: main and findAllDistributionFiles / findAllMerkleFiles      *)
(***************************************************************************)
MaxChanged == 2

MaxFsEntries == 2

\* The chain folders in the order the scan visits them (the list of
\* findAllMerkleFiles, which is also the key order of SUPPORTED_CHAINS).
CHAINS ==
    << "ethereum", "classic", "base", "optimism", "arbitrum", "polygon", "bsc", "avalanche" >>

\* The file name a driver looks for.
FileName(m) == IF m = "distributions" THEN "distribution.json" ELSE "merkle-tree.json"

\* <chain>/<distributor>/<base>
Path(chain, distributor, base) == [chain |-> chain, distributor |-> distributor, base |-> base]

\* f.includes(name): a substring test, tabulated for the paths of the model.
Includes(f, name) ==
    \/ f.base = name
    \/ f.base = "merkle-tree.json.bak" /\ name = "merkle-tree.json"

ReadmePath == Path("", "", "README.md")

ChangedCatalog ==
    {Path("ethereum", "0xd1", "distribution.json"), Path("base", "0xd2", "distribution.json"),
     Path("ethereum", "0xd1", "merkle-tree.json"), Path("base", "0xd2", "merkle-tree.json.bak"),
     ReadmePath}

NoRepeat(s) == \A a, b \in 1..Len(s) : s[a] = s[b] => a = b

\* Change lists: up to MaxChanged different paths.
ChangedLists == {s \in SeqsUpTo(ChangedCatalog, MaxChanged) : NoRepeat(s)}

\* The names readdirSync returns for a chain folder, in its order.
DistributorNames == << "0xd1", "0xd2" >>

\* What lies in a chain folder: a distributor folder with the file, one without
\* it, or a plain file.
Placements ==
    [chain : {"ethereum", "avalanche"}, name : {"0xd1", "0xd2"},
     kind : {"withFile", "withoutFile", "notDirectory"}]

RECURSIVE PlacementSets(_)
PlacementSets(k) ==
    IF k = 0 THEN {{}}
    ELSE LET smaller == PlacementSets(k - 1) IN
         smaller \cup {ps \cup {p} : ps \in smaller, p \in Placements}

OnePerName(ps) == \A p, q \in ps : (p.chain = q.chain /\ p.name = q.name) => p = q

\* The working directory: the chain folders with up to MaxFsEntries entries, and
\* the chain names at which a plain file lies instead of a folder.
Listings ==
    {[notDirectory |-> nd, entries |-> ps] :
        nd \in {{}, {"polygon"}},
        ps \in {x \in PlacementSets(MaxFsEntries) : OnePerName(x)}}

RECURSIVE ChainFilesFrom(_, _, _, _)
\* The inner loop of findAll*Files over readdirSync(chainPath), from name k on.
ChainFilesFrom(l, chain, name, k) ==
    IF k > Len(DistributorNames) THEN << >>
    ELSE (IF [chain |-> chain, name |-> DistributorNames[k], kind |-> "withFile"] \in l.entries
          THEN << Path(chain, DistributorNames[k], name) >>
          ELSE << >>)
         \o ChainFilesFrom(l, chain, name, k + 1)

RECURSIVE FindAllFrom(_, _, _)
\* The outer loop of findAll*Files, from chain k on: the files pushed, or raised
\* when readdirSync meets a chain path that is no folder.
FindAllFrom(l, name, k) ==
    IF k > Len(CHAINS) THEN [raised |-> FALSE, files |-> << >>]
    ELSE LET chain == CHAINS[k]
             rest == FindAllFrom(l, name, k + 1)
         IN IF chain \in l.notDirectory THEN [raised |-> TRUE, files |-> << >>]
            ELSE IF rest.raised THEN rest
            ELSE [raised |-> FALSE, files |-> ChainFilesFrom(l, chain, name, 1) \o rest.files]

FindAllFiles(l, name) == FindAllFrom(l, name, 1)

\* changedFiles.split('\n').filter(f => f.includes(name))
FilterChanged(changed, name) == SelectSeq(changed, LAMBDA f : Includes(f, name))

\* hasErrors assigned from the current file alone.
NextHasErrorsOverwritten(flag, failed) == failed

\* hasErrors = true, when the file failed
NextHasErrors(flag, failed) == flag \/ failed

\* A loop that breaks at the first file with errors.
LoopStopsAtFirstError(i, files, flag) == i < Len(files) /\ ~flag

\* The for-of loop has a file left to take.
LoopContinues(i, files, flag) == i < Len(files)

GoodTree ==
    TreeObject(Arr(<< GoodEntry(0), GoodEntry(1) >>), Arr(<< RootAA, RootBB >>),
               Arr(<< Str("uint256") >>), Str("standard-v1"), Absent, Absent)

NoValueTree ==
    TreeObject(Arr(<< GoodEntry(0), NoValueEntry >>), Arr(<< RootAA, RootBB >>),
               Arr(<< Str("uint256") >>), Str("standard-v1"), Absent, Absent)

BadTree ==
    TreeObject(Arr(<< BadEntry >>), Arr(<< RootAA >>),
               Arr(<< Str("uint256") >>), Str("standard-v1"), Absent, Absent)

SimpleTree == TreeObject(Absent, Absent, Absent, Absent, RootAA, Arr(<< Leaf(0), Leaf(1) >>))

Parsed(d) == [k |-> "parsed", data |-> d]

\* What loadMerkleTree finds at a merkle-tree.json path.
DriverTreeContents ==
    {[k |-> "unreadable"], [k |-> "unparsable"],
     Parsed(GoodTree), Parsed(NoValueTree), Parsed(BadTree), Parsed(SimpleTree)}

\* What the merkle driver finds at the sibling distribution.json.
SiblingContents ==
    {[k |-> "missing"], [k |-> "unparsable"], Parsed(GoodDistribution),
     Parsed([GoodDistribution EXCEPT !.merkleRoot = RootBB]), Parsed(Null)}

\* What the distribution driver finds at a distribution.json path.
DriverDistributionContents ==
    {[k |-> "unreadable"], [k |-> "unparsable"], Parsed(GoodDistribution),
     Parsed([GoodDistribution EXCEPT !.chainId = Num(61)]), Parsed(Null)}

\* The body of the merkle driver's loop for one file (lines 111-141): what it
\* loads, what it passes on, and what it prints.
MerkleFile(file, c, s) ==
    IF c.k \in {"unreadable", "unparsable"}
    THEN [treeData |-> Absent, expectedRoot |-> Absent, result |-> NoResult,
          report |-> [file |-> file, status |-> "exception",
                      message |-> "Failed to load merkle tree"]]
    ELSE IF s.k = "unparsable"
    THEN [treeData |-> c.data, expectedRoot |-> Null, result |-> NoResult,
          report |-> [file |-> file, status |-> "exception", message |-> "SyntaxError"]]
    ELSE IF s.k = "parsed" /\ Nullish(s.data)
    THEN [treeData |-> c.data, expectedRoot |-> Null, result |-> NoResult,
          report |-> [file |-> file, status |-> "exception", message |-> "TypeError"]]
    ELSE
    LET expected == IF s.k = "missing" THEN Null ELSE Get(s.data, "merkleRoot")
        r == validateMerkleTree(c.data, expected)
    IN [treeData |-> c.data, expectedRoot |-> expected, result |-> r,
        report |->
            IF r.raised
            THEN [file |-> file, status |-> "exception", message |-> r.message]
            ELSE IF Len(r.errors) > 0
            THEN [file |-> file, status |-> "errors", errors |-> r.errors]
            ELSE [file |-> file, status |-> "valid",
                  leaves |-> Len(c.data.values.a),
                  root |-> IF Get(c.data, "format") = Str("standard-v1")
                              /\ Truthy(ElemAt(Get(c.data, "tree"), 0))
                           THEN ElemAt(Get(c.data, "tree"), 0)
                           ELSE Get(c.data, "root")]]

InitDriver ==
    /\ mode \in {"distributions", "merkle"}
    /\ \/ changedFiles \in ChangedLists /\ listing = EmptyListing
       \/ changedFiles \in {<< >>, << ReadmePath >>} /\ listing \in Listings
    /\ scanFiles = << >>
    /\ fileIndex = 0
    /\ hasErrors = FALSE
    /\ out = << >>
    /\ exitCode = -1
    /\ sibling = NoContent
    /\ content = NoContent
    /\ treeData = Absent
    /\ expectedRoot = Absent
    /\ result = NoResult
    /\ pc = "start"

\* main, up to the loop: the file set is the matching changed files, or the scan
\* when none matches. An exception of the scan leaves main; the catch handler of
\* main() exits with status 1.
Resolve ==
    /\ pc = "start"
    /\ LET files == FilterChanged(changedFiles, FileName(mode))
           found == IF Len(files) > 0 THEN [raised |-> FALSE, files |-> files]
                    ELSE FindAllFiles(listing, FileName(mode))
       IN IF found.raised
          THEN scanFiles' = << >> /\ pc' = "crashed" /\ exitCode' = 1
          ELSE scanFiles' = found.files /\ pc' = "loop" /\ exitCode' = exitCode
    /\ UNCHANGED <<mode, treeData, expectedRoot, content, result, changedFiles, listing,
                   fileIndex, hasErrors, out, sibling>>

\* One iteration of the loop of validate-distributions.js main.
ValidateDistributionStep ==
    /\ mode = "distributions"
    /\ pc = "loop"
    /\ LoopContinues(fileIndex, scanFiles, hasErrors)
    /\ \E c \in DriverDistributionContents :
        LET file == scanFiles[fileIndex + 1]
            r == validateDistributionFile(c)
        IN /\ content' = c
           /\ result' = r
           /\ IF r.raised
              THEN /\ pc' = "crashed"
                   /\ exitCode' = 1
                   /\ UNCHANGED <<hasErrors, out>>
              ELSE /\ pc' = pc
                   /\ exitCode' = exitCode
                   /\ hasErrors' = NextHasErrors(hasErrors, Len(r.errors) > 0)
                   /\ out' = Append(out,
                          IF Len(r.errors) > 0
                          THEN [file |-> file, status |-> "errors", errors |-> r.errors]
                          ELSE [file |-> file, status |-> "valid"])
    /\ fileIndex' = fileIndex + 1
    /\ UNCHANGED <<mode, treeData, expectedRoot, changedFiles, listing, scanFiles, sibling>>

\* One iteration of the loop of validate-merkle.js main.
ValidateMerkleStep ==
    /\ mode = "merkle"
    /\ pc = "loop"
    /\ LoopContinues(fileIndex, scanFiles, hasErrors)
    /\ \E c \in DriverTreeContents, s \in SiblingContents :
        LET o == MerkleFile(scanFiles[fileIndex + 1], c, s) IN
        /\ content' = c
        /\ sibling' = s
        /\ treeData' = o.treeData
        /\ expectedRoot' = o.expectedRoot
        /\ result' = o.result
        /\ hasErrors' = NextHasErrors(hasErrors, o.report.status /= "valid")
        /\ out' = Append(out, o.report)
    /\ fileIndex' = fileIndex + 1
    /\ UNCHANGED <<mode, pc, changedFiles, listing, scanFiles, exitCode>>

\* After the loop: process.exit(1) if hasErrors, else the success line and status 0.
Exit ==
    /\ pc = "loop"
    /\ ~LoopContinues(fileIndex, scanFiles, hasErrors)
    /\ exitCode' = IF hasErrors THEN 1 ELSE 0
    /\ pc' = "exited"
    /\ UNCHANGED <<mode, treeData, expectedRoot, content, result, changedFiles, listing,
                   scanFiles, fileIndex, hasErrors, out, sibling>>

Next == Resolve \/ ValidateDistributionStep \/ ValidateMerkleStep \/ Exit

Spec == InitDriver /\ [][Next]_vars

(***************************************************************************)
(* Properties of one validator call                                        *)
(***************************************************************************)
\* How many errors of the given kind a returned list holds.
Count(errors, kind) == Cardinality({k \in 1..Len(errors) : errors[k].kind = kind})

ErrorsOfKind(errors, kind) == SelectSeq(errors, LAMBDA e : e.kind = kind)

HasArray(obj, key) == obj.t = "obj" /\ key \in DOMAIN obj /\ obj[key].t = "arr"

\* C3: validateDistributionFile never raises: it returns a list, and for a file
\* that is not parseable JSON the list is the single entry "Failed to parse JSON:
\* <message>", no other check being reported.
C3_NeverRaisesParseFailureIsSingleEntry ==
    (mode = "dist" /\ pc = "returned") =>
        /\ ~result.raised
        /\ "errors" \in DOMAIN result
        /\ content.k = "unparsable" =>
               result.errors = << [kind |-> "ParseFail", message |-> "SyntaxError"] >>

C3_Witness ==
    /\ mode = "dist"
    /\ pc = "returned"
    /\ content.k = "unparsable"
    /\ ~result.raised
    /\ Len(result.errors) = 1

\* C7: whenever chainId and chainName are both present and the chain table's id
\* for chainName differs from chainId, exactly one chain-id-mismatch error naming
\* both values is emitted, for every chainId value; none when the two agree.
C7_ChainIdMismatchForEveryChainId ==
    (mode = "dist" /\ pc = "returned" /\ content.k = "parsed"
        /\ content.data.t = "obj"
        /\ "chainId" \in DOMAIN content.data
        /\ "chainName" \in DOMAIN content.data
        /\ content.data.chainId.t = "num"
        /\ content.data.chainName.t = "str"
        /\ content.data.chainName.s \in DOMAIN SUPPORTED_CHAINS) =>
    LET chainId == content.data.chainId.n
        tableId == SUPPORTED_CHAINS[content.data.chainName.s]
        found == ErrorsOfKind(result.errors, "ChainIdMismatch")
    IN IF tableId /= chainId
       THEN found = << [kind |-> "ChainIdMismatch", chainId |-> Num(chainId),
                        expected |-> Num(tableId)] >>
       ELSE found = << >>

\* A document of the Simple shape: a `leaves` array and none of values, tree,
\* leafEncoding.
SimpleShape(doc) ==
    /\ HasArray(doc, "leaves")
    /\ doc.t = "obj"
    /\ {"values", "tree", "leafEncoding"} \cap DOMAIN doc = {}

\* C5: a Simple-shape document is validated without any missing-values or
\* missing-tree error, and one whose two leaves both have leafIndex 0 gets exactly
\* one duplicate-index error listing 0.
C5_SimpleShapeAccepted ==
    (mode = "tree" /\ pc = "returned" /\ SimpleShape(treeData)) =>
        /\ ~result.raised
        /\ Count(result.errors, "MissingValues") = 0
        /\ Count(result.errors, "MissingTree") = 0
        /\ treeData.leaves = Arr(<< Leaf(0), Leaf(0) >>) =>
               ErrorsOfKind(result.errors, "DuplicateIndices")
                   = << [kind |-> "DuplicateIndices", list |-> << Num(0) >>] >>

\* The root as the claim resolves it: tree[0] for "standard-v1" when tree[0]
\* exists (an empty string there counting as none), the `root` field (possibly
\* absent) otherwise.
ResolvedRoot(doc) ==
    IF "format" \in DOMAIN doc /\ doc.format = Str("standard-v1")
       /\ Len(doc.tree.a) >= 1 /\ doc.tree.a[1] /= EmptyText
    THEN doc.tree.a[1]
    ELSE IF "root" \in DOMAIN doc THEN doc.root ELSE Absent

\* C6: for every document with `values` and `tree` arrays and every supplied
\* expected root, exactly one root-mismatch error is emitted if the resolved root
\* differs from the expected root, and none if they are equal.
C6_RootMismatchExactlyWhenRootsDiffer ==
    (mode = "tree" /\ pc = "returned"
        /\ HasArray(treeData, "values") /\ HasArray(treeData, "tree")
        /\ expectedRoot \in {RootAA, RootBB}) =>
        /\ ~result.raised
        /\ Count(result.errors, "RootMismatch")
               = IF ResolvedRoot(treeData) /= expectedRoot THEN 1 ELSE 0

\* C8: for a document with `values` and `tree` arrays in which the entry at some
\* position i lacks a `value` array, validateMerkleTree returns (does not raise) a
\* list holding the indexed error of entry i.
C8_MissingValueIsAccumulated ==
    (mode = "tree" /\ pc = "returned"
        /\ HasArray(treeData, "values") /\ HasArray(treeData, "tree")) =>
    \A k \in 1..Len(treeData.values.a) :
        LET entry == treeData.values.a[k] IN
        (entry.t = "obj" /\ ~HasArray(entry, "value")) =>
            /\ ~result.raised
            /\ \E j \in 1..Len(result.errors) :
                   result.errors[j] = [kind |-> "EntryMissingValue", i |-> k - 1]

\* A standard-shape document: values, tree and leafEncoding arrays.
StandardShape(doc) ==
    HasArray(doc, "values") /\ HasArray(doc, "tree") /\ HasArray(doc, "leafEncoding")

AllCarryValue(doc) ==
    \A k \in 1..Len(doc.values.a) : HasArray(doc.values.a[k], "value")

\* value[0] of every entry, in document order.
IndexValues(doc) ==
    [k \in 1..Len(doc.values.a) |->
        LET value == doc.values.a[k].value.a IN IF value = << >> THEN Absent ELSE value[1]]

Occurrences(idx, x) == {p \in 1..Len(idx) : idx[p] = x}

\* The position at which x occurs for the second time.
FirstRepetition(idx, x) ==
    CHOOSE p \in Occurrences(idx, x) :
        Cardinality({q \in Occurrences(idx, x) : q < p}) = 1

\* C9: for a standard-shape document whose entries all carry a `value` array, at
\* most one duplicate-indices error is emitted; one is emitted exactly when some
\* index value occurs more than once among the entries' value[0], and it lists
\* each repeated index value exactly once, in document order of first repetition.
C9_DuplicateIndicesReportedOnceInOrder ==
    (mode = "tree" /\ pc = "returned" /\ StandardShape(treeData) /\ AllCarryValue(treeData)) =>
    LET idx == IndexValues(treeData)
        repeated == {idx[p] : p \in {q \in 1..Len(idx) : Cardinality(Occurrences(idx, idx[q])) > 1}}
    IN
    /\ ~result.raised
    /\ LET found == ErrorsOfKind(result.errors, "DuplicateIndices") IN
       /\ Len(found) <= 1
       /\ Len(found) = 1 <=> repeated /= {}
       /\ Len(found) = 1 =>
            LET list == found[1].list IN
            /\ NoRepeat(list)
            /\ {list[k] : k \in 1..Len(list)} = repeated
            /\ \A a, b \in 1..Len(list) :
                   a < b => FirstRepetition(idx, list[a]) < FirstRepetition(idx, list[b])

C9_Witness ==
    /\ mode = "tree"
    /\ pc = "returned"
    /\ StandardShape(treeData)
    /\ treeData.values.a = << GoodEntry(1), GoodEntry(0), GoodEntry(0), GoodEntry(1) >>
    /\ ~result.raised
    /\ Count(result.errors, "DuplicateIndices") = 1

\* The least k with 2^k >= n, for n >= 1.
LeastPowerExponent(n) ==
    CHOOSE k \in 0..n : 2^k >= n /\ \A j \in 0..(k - 1) : 2^j < n

\* max(1, ceil(log2(n)) * 2), read for n = 0 as 1.
SpecMinTreeLength(n) == IF n = 0 THEN 1 ELSE Max(1, 2 * LeastPowerExponent(n))

\* C10: for every standard-shape document with n values (n = 0 and n = 1
\* included) a tree-too-short error is emitted if and only if the `tree` array is
\* shorter than max(1, ceil(log2(n)) * 2).
C10_TreeTooShortIffBelowMinimum ==
    (mode = "tree" /\ pc = "returned" /\ StandardShape(treeData)
        /\ \A k \in 1..Len(treeData.values.a) : treeData.values.a[k].t = "obj") =>
    LET emitted == ~result.raised /\ Count(result.errors, "TreeTooShort") >= 1 IN
    emitted <=> Len(treeData.tree.a) < SpecMinTreeLength(Len(treeData.values.a))

(***************************************************************************)
(* Properties of the drivers                                               *)
(***************************************************************************)
\* C1: in both drivers, once the file set is resolved, the process exits with
\* status 0 if and only if no file of the set produced an error (a non-empty
\* error list or a caught exception), and with status 1 otherwise.
C1_ExitStatusZeroIffNoFileFailed ==
    pc = "exited" =>
        /\ exitCode \in {0, 1}
        /\ Len(out) = Len(scanFiles)
        /\ exitCode = 0 <=> \A k \in 1..Len(out) : out[k].status = "valid"
        /\ \A k \in 1..Len(out) : out[k].status = "errors" => out[k].errors /= << >>

C1_Witness ==
    /\ pc = "exited"
    /\ mode = "merkle"
    /\ Len(out) = 2
    /\ out[1].status = "exception"
    /\ out[2].status = "valid"
    /\ exitCode = 1

\* The position of a path in a list without repetition.
PositionIn(s, f) == CHOOSE p \in 1..Len(s) : s[p] = f

ChainRank(chain) == CHOOSE k \in 1..Len(CHAINS) : CHAINS[k] = chain

NameRank(name) == CHOOSE k \in 1..Len(DistributorNames) : DistributorNames[k] = name

\* scanFiles holds the files of the discovery, in its order: the matching paths
\* in change-list order, or else the chain folders in chain-list order and, in a
\* chain folder, in the order of the directory listing.
InDiscoveryOrder ==
    LET matching == {p \in 1..Len(changedFiles) : Includes(changedFiles[p], FileName(mode))}
        n == Len(scanFiles)
    IN IF matching /= {}
       THEN /\ {scanFiles[k] : k \in 1..n} = {changedFiles[p] : p \in matching}
            /\ \A a, b \in 1..n :
                   a < b => PositionIn(changedFiles, scanFiles[a])
                                < PositionIn(changedFiles, scanFiles[b])
       ELSE /\ {scanFiles[k] : k \in 1..n}
                   = {Path(e.chain, e.name, FileName(mode)) :
                          e \in {x \in listing.entries : x.kind = "withFile"}}
            /\ \A a, b \in 1..n :
                   a < b =>
                       \/ ChainRank(scanFiles[a].chain) < ChainRank(scanFiles[b].chain)
                       \/ /\ scanFiles[a].chain = scanFiles[b].chain
                          /\ NameRank(scanFiles[a].distributor)
                                 < NameRank(scanFiles[b].distributor)

\* C2: in both drivers every file of the resolved set is taken exactly once, in
\* discovery order, and an error found in one file never keeps a later file from
\* being taken: the reports printed are those of the first files of the set, one
\* each and in order, and at the exit those of all of them.
C2_EveryFileOnceInDiscoveryOrder ==
    pc \in {"loop", "exited"} =>
        /\ InDiscoveryOrder
        /\ Len(out) = fileIndex
        /\ fileIndex <= Len(scanFiles)
        /\ \A k \in 1..Len(out) : out[k].file = scanFiles[k]
        /\ pc = "exited" => Len(out) = Len(scanFiles)

C2_Witness ==
    /\ pc = "exited"
    /\ mode = "distributions"
    /\ Len(scanFiles) = 2
    /\ Len(out) = 2
    /\ out[1].status = "errors"
    /\ out[1].errors = << [kind |-> "ParseFail", message |-> "SyntaxError"] >>
    /\ out[2].status = "valid"

\* C4: in the merkle driver, when the sibling distribution.json is missing or is
\* present but unparsable, validateMerkleTree is called with no expected root, and
\* an otherwise well-formed tree document is reported valid.
C4_UnusableSiblingMeansNoExpectedRoot ==
    (mode = "merkle" /\ fileIndex >= 1 /\ content.k = "parsed"
        /\ sibling.k \in {"missing", "unparsable"}) =>
        /\ result /= NoResult
        /\ Nullish(expectedRoot)
        /\ content.data = GoodTree => out[Len(out)].status = "valid"

====
